---- MODULE Spec2Model ----
(***************************************************************************)
(* AiService (packages/cli/src/services/ai.service.ts) and the two         *)
(* self-hosted provider adapters OpenRouterClient and OpenAIClient         *)
(* (ai-self-hosted.service.ts).                                            *)
(*                                                                         *)
(* JavaScript values are modelled as follows: a string is a TLA+ string,   *)
(* an object is a record that carries only the properties it has (so that  *)
(* `x.p === undefined` is `~Has(x, "p")`), an array is a sequence, and an  *)
(* object whose property order matters for JSON.stringify is a JsObject    *)
(* holding a sequence of <<key, value>> pairs.  An async method is split   *)
(* at its awaits: the part that runs up to `await fetch(...)` builds the   *)
(* request, the continuation maps the response to the method's outcome.    *)
(***************************************************************************)
EXTENDS Integers, Sequences, FiniteSets, TLC

\* Number of AiService operations invoked in one behaviour.
MaxCalls == 2

VARIABLES
    license,                \* License.isAiAssistantEnabled()
    globalConfig,           \* GlobalConfig (the aiAssistant section)
    client,                 \* AiService.client
    selfHostedClient,       \* AiService.selfHostedClient
    isUsingLicensedClient,  \* AiService.isUsingLicensedClient
    calls,                  \* the invocations of AiService operations
    initRuns,               \* how many times AiService.init() was entered
    constructed             \* every client object constructed so far, in order

vars == <<license, globalConfig, client, selfHostedClient, isUsingLicensedClient,
          calls, initRuns, constructed>>

Calls == 1..MaxCalls

Undefined == [type |-> "undefined"]

Has(obj, key) == key \in DOMAIN obj

(***************************************************************************)
(* JSON.stringify                                                          *)
(***************************************************************************)
QUOTE == "\""

BACKSLASH == "\\"

NEWLINE == "\n"

\* The characters JSON.stringify escapes inside a string literal.
EscapeChar(ch) ==
    IF ch = QUOTE THEN BACKSLASH \o QUOTE
    ELSE IF ch = BACKSLASH THEN BACKSLASH \o BACKSLASH
    ELSE IF ch = NEWLINE THEN BACKSLASH \o "n"
    ELSE ch

RECURSIVE Escape(_)
Escape(s) ==
    IF Len(s) = 0 THEN ""
    ELSE IF Len(s) = 1 THEN EscapeChar(s)
    ELSE LET h == Len(s) \div 2
         IN  Escape(SubSeq(s, 1, h)) \o Escape(SubSeq(s, h + 1, Len(s)))

JsonString(s) == QUOTE \o Escape(s) \o QUOTE

JsonBoolean(b) == IF b THEN "true" ELSE "false"

RECURSIVE JoinComma(_)
JoinComma(parts) ==
    IF Len(parts) = 0 THEN ""
    ELSE IF Len(parts) = 1 THEN parts[1]
    ELSE parts[1] \o "," \o JoinComma(Tail(parts))

\* An object with string-valued properties, in insertion order.
JsObject(props) == [type |-> "object", props |-> props]

JsString(s) == [type |-> "string", value |-> s]

\* obj[key] for a JsObject; an absent property reads as the (falsy) empty string,
\* which `||` treats exactly like undefined.
Prop(obj, key) ==
    LET hits == SelectSeq(obj.props, LAMBDA p : p[1] = key)
    IN  IF Len(hits) = 0 THEN "" ELSE hits[1][2]

JsonObject(obj) ==
    "{" \o JoinComma([i \in 1..Len(obj.props) |->
                        JsonString(obj.props[i][1]) \o ":" \o JsonString(obj.props[i][2])])
        \o "}"

JsonMessage(m) ==
    "{" \o JsonString("role") \o ":" \o JsonString(m.role) \o ","
        \o JsonString("content") \o ":" \o JsonString(m.content) \o "}"

\* JSON.stringify({ model, messages, stream })
JsonRequestBody(body) ==
    "{" \o JsonString("model") \o ":" \o JsonString(body.model) \o ","
        \o JsonString("messages") \o ":["
        \o JoinComma([i \in 1..Len(body.messages) |-> JsonMessage(body.messages[i])])
        \o "]," \o JsonString("stream") \o ":" \o JsonBoolean(body.stream) \o "}"

Contains(s, sub) ==
    \E i \in 1..(Len(s) - Len(sub) + 1) : SubSeq(s, i, i + Len(sub) - 1) = sub

(***************************************************************************)
(* Outcomes of an async method                                             *)
(***************************************************************************)
Return(value) == [kind |-> "return", value |-> value]

Throw(name, message) == [kind |-> "throw", name |-> name, message |-> message]

SystemContent ==
    "You are an AI assistant for n8n, a workflow automation platform. Help users with their workflow automation questions and provide accurate, helpful responses."

NoResponseGenerated == "No response generated"


\* The first choice of a completion carries a non-empty content.
HasChoiceContent(data) ==
    /\ Len(data.choices) > 0
    /\ Has(data.choices[1], "message")
    /\ Has(data.choices[1].message, "content")
    /\ data.choices[1].message.content # ""

(***************************************************************************)
(* class OpenRouterClient                                                  *)
(***************************************************************************)
\* new OpenRouterClient(apiKey, model)
OpenRouterClient(apiKey, model) ==
    [class |-> "OpenRouterClient", apiKey |-> apiKey, model |-> model,
     baseUrl |-> "https://openrouter.ai/api/v1"]

OpenRouterClient_headers(self) ==
    ("Content-Type" :> "application/json")
        @@ ("Authorization" :> ("Bearer " \o self.apiKey))
        @@ ("HTTP-Referer" :> "https://n8n.io")
        @@ ("X-Title" :> "n8n AI Assistant")

\* Mutant of OpenRouterClient_convertPayloadToMessages: question is tried before
\* message.
OpenRouterClient_convertPayloadToMessages_QuestionFirst(payload) ==
    LET system == <<[role |-> "system", content |-> SystemContent]>>
    IN  IF Has(payload, "payload") /\ payload.payload.type = "object"
        THEN LET message  == Prop(payload.payload, "message")
                 question == Prop(payload.payload, "question")
                 userMessage ==
                     IF question # "" THEN question
                     ELSE IF message # "" THEN message
                     ELSE JsonObject(payload.payload)
             IN  system \o <<[role |-> "user", content |-> userMessage]>>
        ELSE system

OpenRouterClient_convertPayloadToMessages(payload) ==
    LET system == <<[role |-> "system", content |-> SystemContent]>>
    IN  IF Has(payload, "payload") /\ payload.payload.type = "object"
        THEN LET message  == Prop(payload.payload, "message")
                 question == Prop(payload.payload, "question")
                 userMessage ==
                     IF message # "" THEN message
                     ELSE IF question # "" THEN question
                     ELSE JsonObject(payload.payload)
             IN  system \o <<[role |-> "user", content |-> userMessage]>>
        ELSE system

OpenRouterClient_schemaLine(node) ==
    "- " \o node.nodeName \o ": " \o JsonObject(node.schema) \o NEWLINE

RECURSIVE OpenRouterClient_schemaLines(_)
OpenRouterClient_schemaLines(nodes) ==
    IF Len(nodes) = 0 THEN ""
    ELSE OpenRouterClient_schemaLine(Head(nodes)) \o OpenRouterClient_schemaLines(Tail(nodes))

\* Mutant of OpenRouterClient_buildAskAiPrompt: the input schema line is written
\* before the lines of context.schema.
OpenRouterClient_buildAskAiPrompt_InputSchemaFirst(payload) ==
    LET question == "Question: " \o payload.question \o NEWLINE \o NEWLINE
        context ==
            IF Has(payload, "context")
            THEN "Context:" \o NEWLINE
                 \o (IF Has(payload.context, "inputSchema")
                     THEN "Input schema for " \o payload.context.inputSchema.nodeName
                          \o ": " \o JsonObject(payload.context.inputSchema.schema)
                          \o NEWLINE
                     ELSE "")
                 \o (IF Has(payload.context, "schema")
                     THEN "Available nodes and their schemas:" \o NEWLINE
                          \o OpenRouterClient_schemaLines(payload.context.schema)
                     ELSE "")
            ELSE ""
    IN  question \o context
        \o NEWLINE \o "For node: " \o payload.forNode \o NEWLINE \o NEWLINE
        \o "Please provide a helpful answer for this n8n workflow automation question."

OpenRouterClient_buildAskAiPrompt(payload) ==
    LET question == "Question: " \o payload.question \o NEWLINE \o NEWLINE
        context ==
            IF Has(payload, "context")
            THEN "Context:" \o NEWLINE
                 \o (IF Has(payload.context, "schema")
                     THEN "Available nodes and their schemas:" \o NEWLINE
                          \o OpenRouterClient_schemaLines(payload.context.schema)
                     ELSE "")
                 \o (IF Has(payload.context, "inputSchema")
                     THEN "Input schema for " \o payload.context.inputSchema.nodeName
                          \o ": " \o JsonObject(payload.context.inputSchema.schema)
                          \o NEWLINE
                     ELSE "")
            ELSE ""
    IN  question \o context
        \o NEWLINE \o "For node: " \o payload.forNode \o NEWLINE \o NEWLINE
        \o "Please provide a helpful answer for this n8n workflow automation question."

\* Mutant of OpenRouterClient_chat_fetch: the user's id is sent along.
OpenRouterClient_chat_fetch_PerUser(self, payload, user) ==
    [url     |-> self.baseUrl \o "/chat/completions",
     method  |-> "POST",
     headers |-> OpenRouterClient_headers(self) @@ ("X-User-Id" :> user.id),
     body    |-> JsonRequestBody(
                     [model    |-> self.model,
                      messages |-> OpenRouterClient_convertPayloadToMessages(payload),
                      stream   |-> TRUE])]

\* chat, up to `await fetch(...)`: the request handed to fetch.
OpenRouterClient_chat_fetch(self, payload, user) ==
    [url     |-> self.baseUrl \o "/chat/completions",
     method  |-> "POST",
     headers |-> OpenRouterClient_headers(self),
     body    |-> JsonRequestBody(
                     [model    |-> self.model,
                      messages |-> OpenRouterClient_convertPayloadToMessages(payload),
                      stream   |-> TRUE])]

\* chat, after fetch resolved with `response`.
OpenRouterClient_chat_then(self, response) ==
    IF ~response.ok
    THEN Throw("Error", "OpenRouter API error: " \o ToString(response.status)
                        \o " " \o response.statusText)
    ELSE Return([body |-> response.body])

OpenRouterClient_applySuggestion(self, payload, user) ==
    Return([sessionId    |-> payload.sessionId,
            suggestionId |-> payload.suggestionId,
            applied      |-> TRUE])

\* askAi, up to `await fetch(...)`: the request handed to fetch.
OpenRouterClient_askAi_fetch(self, payload, user) ==
    [url     |-> self.baseUrl \o "/chat/completions",
     method  |-> "POST",
     headers |-> OpenRouterClient_headers(self),
     body    |-> JsonRequestBody(
                     [model    |-> self.model,
                      messages |-> <<[role |-> "system", content |-> SystemContent],
                                     [role    |-> "user",
                                      content |-> OpenRouterClient_buildAskAiPrompt(payload)]>>,
                      stream   |-> FALSE])]

\* data.choices[0]?.message?.content || 'No response generated'
OpenRouterClient_answer(data) ==
    IF ~Has(data, "choices")
    THEN Throw("TypeError", "Cannot read properties of undefined (reading '0')")
    ELSE IF Len(data.choices) = 0 THEN Return([answer |-> NoResponseGenerated])
    ELSE IF ~Has(data.choices[1], "message") THEN Return([answer |-> NoResponseGenerated])
    ELSE IF ~Has(data.choices[1].message, "content")
         THEN Return([answer |-> NoResponseGenerated])
    ELSE IF data.choices[1].message.content = ""
         THEN Return([answer |-> NoResponseGenerated])
    ELSE Return([answer |-> data.choices[1].message.content])

\* askAi, after fetch resolved with `response` (and, on success, response.json()).
OpenRouterClient_askAi_then(self, response) ==
    IF ~response.ok
    THEN Throw("Error", "OpenRouter API error: " \o ToString(response.status)
                        \o " " \o response.statusText)
    ELSE OpenRouterClient_answer(response.json)

OpenRouterClient_generateAiCreditsCredentials(self, user) ==
    Return([apiKey |-> self.apiKey, url |-> self.baseUrl])

(***************************************************************************)
(* class OpenAIClient                                                      *)
(***************************************************************************)
\* new OpenAIClient(apiKey, model)
OpenAIClient(apiKey, model) ==
    [class |-> "OpenAIClient", apiKey |-> apiKey, model |-> model,
     baseUrl |-> "https://api.openai.com/v1"]

\* Mutant of OpenAIClient_headers: the header block copied from the other adapter.
OpenAIClient_headers_Copied(self) ==
    ("Content-Type" :> "application/json")
        @@ ("Authorization" :> ("Bearer " \o self.apiKey))
        @@ ("HTTP-Referer" :> "https://n8n.io")
        @@ ("X-Title" :> "n8n AI Assistant")

OpenAIClient_headers(self) ==
    ("Content-Type" :> "application/json")
        @@ ("Authorization" :> ("Bearer " \o self.apiKey))

OpenAIClient_convertPayloadToMessages(payload) ==
    LET system == <<[role |-> "system", content |-> SystemContent]>>
    IN  IF Has(payload, "payload") /\ payload.payload.type = "object"
        THEN LET message  == Prop(payload.payload, "message")
                 question == Prop(payload.payload, "question")
                 userMessage ==
                     IF message # "" THEN message
                     ELSE IF question # "" THEN question
                     ELSE JsonObject(payload.payload)
             IN  system \o <<[role |-> "user", content |-> userMessage]>>
        ELSE system

OpenAIClient_schemaLine(node) ==
    "- " \o node.nodeName \o ": " \o JsonObject(node.schema) \o NEWLINE

RECURSIVE OpenAIClient_schemaLines(_)
OpenAIClient_schemaLines(nodes) ==
    IF Len(nodes) = 0 THEN ""
    ELSE OpenAIClient_schemaLine(Head(nodes)) \o OpenAIClient_schemaLines(Tail(nodes))

OpenAIClient_buildAskAiPrompt(payload) ==
    LET question == "Question: " \o payload.question \o NEWLINE \o NEWLINE
        context ==
            IF Has(payload, "context")
            THEN "Context:" \o NEWLINE
                 \o (IF Has(payload.context, "schema")
                     THEN "Available nodes and their schemas:" \o NEWLINE
                          \o OpenAIClient_schemaLines(payload.context.schema)
                     ELSE "")
                 \o (IF Has(payload.context, "inputSchema")
                     THEN "Input schema for " \o payload.context.inputSchema.nodeName
                          \o ": " \o JsonObject(payload.context.inputSchema.schema)
                          \o NEWLINE
                     ELSE "")
            ELSE ""
    IN  question \o context
        \o NEWLINE \o "For node: " \o payload.forNode \o NEWLINE \o NEWLINE
        \o "Please provide a helpful answer for this n8n workflow automation question."

\* chat, up to `await fetch(...)`: the request handed to fetch.
OpenAIClient_chat_fetch(self, payload, user) ==
    [url     |-> self.baseUrl \o "/chat/completions",
     method  |-> "POST",
     headers |-> OpenAIClient_headers(self),
     body    |-> JsonRequestBody(
                     [model    |-> self.model,
                      messages |-> OpenAIClient_convertPayloadToMessages(payload),
                      stream   |-> TRUE])]

\* Mutant of OpenAIClient_chat_then: the stream is read before it is returned.
OpenAIClient_chat_then_Buffered(self, response) ==
    IF ~response.ok
    THEN Throw("Error", "OpenAI API error: " \o ToString(response.status)
                        \o " " \o response.statusText)
    ELSE Return([body |-> [response.body EXCEPT !.chunks = Tail(@), !.locked = TRUE]])

\* chat, after fetch resolved with `response`.
OpenAIClient_chat_then(self, response) ==
    IF ~response.ok
    THEN Throw("Error", "OpenAI API error: " \o ToString(response.status)
                        \o " " \o response.statusText)
    ELSE Return([body |-> response.body])

\* Mutant of OpenAIClient_applySuggestion: the two ids change places.
OpenAIClient_applySuggestion_Swapped(self, payload, user) ==
    Return([sessionId    |-> payload.suggestionId,
            suggestionId |-> payload.sessionId,
            applied      |-> TRUE])

OpenAIClient_applySuggestion(self, payload, user) ==
    Return([sessionId    |-> payload.sessionId,
            suggestionId |-> payload.suggestionId,
            applied      |-> TRUE])

\* askAi, up to `await fetch(...)`: the request handed to fetch.
OpenAIClient_askAi_fetch(self, payload, user) ==
    [url     |-> self.baseUrl \o "/chat/completions",
     method  |-> "POST",
     headers |-> OpenAIClient_headers(self),
     body    |-> JsonRequestBody(
                     [model    |-> self.model,
                      messages |-> <<[role |-> "system", content |-> SystemContent],
                                     [role    |-> "user",
                                      content |-> OpenAIClient_buildAskAiPrompt(payload)]>>,
                      stream   |-> FALSE])]

\* data.choices[0]?.message?.content || 'No response generated'
\* Mutant of OpenAIClient_answer: `??` in place of `||`, so an empty content is an
\* answer.
OpenAIClient_answer_Nullish(data) ==
    IF ~Has(data, "choices")
    THEN Throw("TypeError", "Cannot read properties of undefined (reading '0')")
    ELSE IF Len(data.choices) = 0 THEN Return([answer |-> NoResponseGenerated])
    ELSE IF ~Has(data.choices[1], "message") THEN Return([answer |-> NoResponseGenerated])
    ELSE IF ~Has(data.choices[1].message, "content")
         THEN Return([answer |-> NoResponseGenerated])
    ELSE Return([answer |-> data.choices[1].message.content])

OpenAIClient_answer(data) ==
    IF ~Has(data, "choices")
    THEN Throw("TypeError", "Cannot read properties of undefined (reading '0')")
    ELSE IF Len(data.choices) = 0 THEN Return([answer |-> NoResponseGenerated])
    ELSE IF ~Has(data.choices[1], "message") THEN Return([answer |-> NoResponseGenerated])
    ELSE IF ~Has(data.choices[1].message, "content")
         THEN Return([answer |-> NoResponseGenerated])
    ELSE IF data.choices[1].message.content = ""
         THEN Return([answer |-> NoResponseGenerated])
    ELSE Return([answer |-> data.choices[1].message.content])

\* Mutant of OpenAIClient_askAi_then: response.ok is not checked.
OpenAIClient_askAi_then_Unchecked(self, response) ==
    IF Has(response.json, "choices") /\ HasChoiceContent(response.json)
    THEN Return([answer |-> response.json.choices[1].message.content])
    ELSE Return([answer |-> NoResponseGenerated])

\* askAi, after fetch resolved with `response` (and, on success, response.json()).
OpenAIClient_askAi_then(self, response) ==
    IF ~response.ok
    THEN Throw("Error", "OpenAI API error: " \o ToString(response.status)
                        \o " " \o response.statusText)
    ELSE OpenAIClient_answer(response.json)

\* Mutant of OpenAIClient_generateAiCreditsCredentials: the other adapter's URL.
OpenAIClient_generateAiCreditsCredentials_CopiedUrl(self, user) ==
    Return([apiKey |-> self.apiKey, url |-> "https://openrouter.ai/api/v1"])

OpenAIClient_generateAiCreditsCredentials(self, user) ==
    Return([apiKey |-> self.apiKey, url |-> self.baseUrl])


(***************************************************************************)
(* interface AiSelfHostedClient: a call goes to the method of the object's *)
(* own class.                                                              *)
(***************************************************************************)
\* chat / askAi up to `await fetch(...)`.
AiSelfHostedClient_fetch(self, op, payload, user) ==
    IF self.class = "OpenRouterClient"
    THEN IF op = "chat" THEN OpenRouterClient_chat_fetch(self, payload, user)
         ELSE OpenRouterClient_askAi_fetch(self, payload, user)
    ELSE IF op = "chat" THEN OpenAIClient_chat_fetch(self, payload, user)
         ELSE OpenAIClient_askAi_fetch(self, payload, user)

\* chat / askAi after fetch resolved.
AiSelfHostedClient_then(self, op, response) ==
    IF self.class = "OpenRouterClient"
    THEN IF op = "chat" THEN OpenRouterClient_chat_then(self, response)
         ELSE OpenRouterClient_askAi_then(self, response)
    ELSE IF op = "chat" THEN OpenAIClient_chat_then(self, response)
         ELSE OpenAIClient_askAi_then(self, response)

\* applySuggestion / generateAiCreditsCredentials: no await, no fetch.
AiSelfHostedClient_sync(self, op, payload, user) ==
    IF self.class = "OpenRouterClient"
    THEN IF op = "applySuggestion" THEN OpenRouterClient_applySuggestion(self, payload, user)
         ELSE OpenRouterClient_generateAiCreditsCredentials(self, user)
    ELSE IF op = "applySuggestion" THEN OpenAIClient_applySuggestion(self, payload, user)
         ELSE OpenAIClient_generateAiCreditsCredentials(self, user)

(***************************************************************************)
(* class AiService                                                         *)
(***************************************************************************)
\* new AiAssistantClient({...}): the SDK's licensed client, an opaque object.
AiAssistantClient(instance) == [class |-> "AiAssistantClient", instance |-> instance]

\* What the licensed client answers: the SDK is not part of this code.
LicensedResult == Return([licensed |-> TRUE])

DefaultOpenRouterModel == "meta-llama/llama-3.1-8b-instruct:free"

DefaultOpenAiModel == "gpt-4o-mini"

\* Mutant of SelfHostedConfigured: a key alone enables the self-hosted mode.
SelfHostedConfigured_KeysOnly(aiAssistant) ==
    aiAssistant.openRouterApiKey # "" \/ aiAssistant.openAiApiKey # ""

\* init(), the condition of the `else if` that selects the self-hosted mode.
SelfHostedConfigured(aiAssistant) ==
    /\ aiAssistant.selfHostedEnabled
    /\ (aiAssistant.openRouterApiKey # "" \/ aiAssistant.openAiApiKey # "")

\* Mutant of NewSelfHostedClient: the two providers tested in the other order.
NewSelfHostedClient_OpenAiFirst(aiAssistant) ==
    IF aiAssistant.openAiApiKey # ""
    THEN [class |-> "OpenAIClient", apiKey |-> aiAssistant.openAiApiKey,
          model |-> aiAssistant.openAiModel, baseUrl |-> "https://api.openai.com/v1"]
    ELSE [class |-> "OpenRouterClient", apiKey |-> aiAssistant.openRouterApiKey,
          model |-> aiAssistant.openRouterModel,
          baseUrl |-> "https://openrouter.ai/api/v1"]

\* init(), the object the self-hosted branch assigns to this.selfHostedClient.
NewSelfHostedClient(aiAssistant) ==
    IF aiAssistant.openRouterApiKey # ""
    THEN OpenRouterClient(aiAssistant.openRouterApiKey, aiAssistant.openRouterModel)
    ELSE OpenAIClient(aiAssistant.openAiApiKey, aiAssistant.openAiModel)

\* The guard every operation starts with: `!this.client && !this.selfHostedClient`.
NeedsInit == client = Undefined /\ selfHostedClient = Undefined

IdleCall ==
    [pc |-> "idle", op |-> "none", payload |-> Undefined, user |-> Undefined,
     servedBy |-> Undefined, requests |-> <<>>, response |-> Undefined,
     result |-> Undefined]

\* The second half of every operation: the branch on isUsingLicensedClient, the
\* assertion, and the call of the selected client up to its first await.
Dispatch(call) ==
    IF isUsingLicensedClient
    THEN IF client = Undefined
         THEN [call EXCEPT !.pc = "done",
                           !.result = Throw("AssertionError",
                                            "Licensed assistant client not setup")]
         ELSE [call EXCEPT !.pc = "licensed", !.servedBy = client]
    ELSE IF selfHostedClient = Undefined
         THEN [call EXCEPT !.pc = "done",
                           !.result = Throw("AssertionError",
                                            "Self-hosted assistant client not setup")]
         ELSE IF call.op \in {"chat", "askAi"}
              THEN [call EXCEPT
                       !.pc = "fetch",
                       !.servedBy = selfHostedClient,
                       !.requests = Append(@, AiSelfHostedClient_fetch(
                                        selfHostedClient, call.op, call.payload,
                                        [id |-> call.user.id]))]
              ELSE [call EXCEPT
                       !.pc = "done",
                       !.servedBy = selfHostedClient,
                       !.result = AiSelfHostedClient_sync(
                                      selfHostedClient, call.op, call.payload,
                                      IF call.op = "applySuggestion"
                                      THEN [id |-> call.user.id] ELSE call.user)]

\* Invocations are numbered in the order in which they are made.
CanInvoke(c) ==
    /\ calls[c].pc = "idle"
    /\ IF c = 1 THEN TRUE ELSE calls[c - 1].pc # "idle"

\* An operation is invoked and runs up to its first await.  With no client set it
\* enters init(): under a license init() suspends at `await loadCertStr()`;
\* otherwise init() runs to its end without suspending and the operation waits
\* for init's promise.  With a client set the operation goes on to dispatch.
Invoke(c, op, payload, user) ==
    LET call == [IdleCall EXCEPT !.op = op, !.payload = payload, !.user = user]
    IN  /\ UNCHANGED <<license, globalConfig, client>>
        /\ IF NeedsInit
           THEN /\ initRuns' = initRuns + 1
                /\ IF license
                   THEN /\ calls' = [calls EXCEPT ![c] = [call EXCEPT !.pc = "loadCertStr"]]
                        /\ UNCHANGED <<selfHostedClient, isUsingLicensedClient, constructed>>
                   ELSE /\ calls' = [calls EXCEPT ![c] = [call EXCEPT !.pc = "init"]]
                        /\ IF SelfHostedConfigured(globalConfig.aiAssistant)
                           THEN /\ selfHostedClient' =
                                       NewSelfHostedClient(globalConfig.aiAssistant)
                                /\ constructed' = Append(constructed, selfHostedClient')
                                /\ isUsingLicensedClient' = FALSE
                           ELSE UNCHANGED <<selfHostedClient, isUsingLicensedClient,
                                            constructed>>
           ELSE /\ calls' = [calls EXCEPT ![c] = Dispatch(call)]
                /\ UNCHANGED <<selfHostedClient, isUsingLicensedClient, initRuns,
                               constructed>>

Chat(c, payload, user) ==
    /\ CanInvoke(c)
    /\ Invoke(c, "chat", payload, user)

ApplySuggestion(c, payload, user) ==
    /\ CanInvoke(c)
    /\ Invoke(c, "applySuggestion", payload, user)

AskAi(c, payload, user) ==
    /\ CanInvoke(c)
    /\ Invoke(c, "askAi", payload, user)

CreateFreeAiCredits(c, user) ==
    /\ CanInvoke(c)
    /\ Invoke(c, "createFreeAiCredits", Undefined, user)

\* init() resumes after `await this.licenseService.loadCertStr()`: it constructs the
\* licensed client and sets the flag, then returns.
LoadCertStrResolved(c) ==
    /\ calls[c].pc = "loadCertStr"
    /\ client' = AiAssistantClient(Len(constructed) + 1)
    /\ constructed' = Append(constructed, client')
    /\ isUsingLicensedClient' = TRUE
    /\ calls' = [calls EXCEPT ![c].pc = "init"]
    /\ UNCHANGED <<license, globalConfig, selfHostedClient, initRuns>>

\* The operation resumes after `await this.init()`.
InitReturned(c) ==
    /\ calls[c].pc = "init"
    /\ calls' = [calls EXCEPT ![c] = Dispatch(calls[c])]
    /\ UNCHANGED <<license, globalConfig, client, selfHostedClient,
                   isUsingLicensedClient, initRuns, constructed>>

\* The licensed client's promise settles.
LicensedClientReturned(c) ==
    /\ calls[c].pc = "licensed"
    /\ calls' = [calls EXCEPT ![c].pc = "done", ![c].result = LicensedResult]
    /\ UNCHANGED <<license, globalConfig, client, selfHostedClient,
                   isUsingLicensedClient, initRuns, constructed>>

\* Mutant of FetchResolved: a non-success response is answered by sending the
\* request once more.
FetchResolved_Retrying(c, response) ==
    /\ calls[c].pc = "fetch"
    /\ calls' = IF ~response.ok /\ Len(calls[c].requests) = 1
                THEN [calls EXCEPT ![c].requests = Append(@, @[1])]
                ELSE [calls EXCEPT
                         ![c].pc = "done",
                         ![c].response = response,
                         ![c].result = AiSelfHostedClient_then(calls[c].servedBy,
                                                               calls[c].op, response)]
    /\ UNCHANGED <<license, globalConfig, client, selfHostedClient,
                   isUsingLicensedClient, initRuns, constructed>>

\* fetch resolves with the upstream's response and the client method runs to its
\* end (for askAi that includes `await response.json()`, which touches no state
\* of the service or the client).
FetchResolved(c, response) ==
    /\ calls[c].pc = "fetch"
    /\ calls' = [calls EXCEPT
                    ![c].pc = "done",
                    ![c].response = response,
                    ![c].result = AiSelfHostedClient_then(calls[c].servedBy,
                                                          calls[c].op, response)]
    /\ UNCHANGED <<license, globalConfig, client, selfHostedClient,
                   isUsingLicensedClient, initRuns, constructed>>

(***************************************************************************)
(* Inputs                                                                  *)
(***************************************************************************)
Users == {[id |-> "user123"], [id |-> "user456"]}

HttpRequestSchema ==
    JsObject(<< <<"type", "object">>, <<"path", "/nodes/HttpRequest">>,
                <<"value", "http-request-schema">> >>)

HelloChat ==
    [payload |-> JsObject(<< <<"message", "Hello">> >>), sessionId |-> "session123"]

ChatPayloads == {HelloChat, [sessionId |-> "session123"]}

HttpNodeQuestion ==
    [question |-> "How do I use the HTTP node?",
     context  |-> [schema      |-> <<[nodeName |-> "HTTP Request",
                                      schema   |-> HttpRequestSchema]>>,
                   inputSchema |-> [nodeName |-> "HTTP Request",
                                    schema   |-> HttpRequestSchema],
                   pushRef     |-> "push123",
                   ndvPushRef  |-> "ndv123"],
     forNode  |-> "HTTP Request"]

AskAiPayloads == {HttpNodeQuestion, [question |-> "Test question", forNode |-> "Test Node"]}

Suggestion456 == [sessionId |-> "session123", suggestionId |-> "suggestion456"]

ApplySuggestionPayloads ==
    {Suggestion456, [sessionId |-> "session999", suggestionId |-> "suggestion1"]}

ReadableStream(chunks) == [type |-> "ReadableStream", chunks |-> chunks, locked |-> FALSE]

HttpResponse(status, statusText, body, json) ==
    [ok |-> (status >= 200 /\ status < 300), status |-> status,
     statusText |-> statusText, body |-> body, json |-> json]

ErrorResponses ==
    {HttpResponse(401, "Unauthorized", ReadableStream(<<>>), [error |-> "invalid key"]),
     HttpResponse(429, "Too Many Requests", ReadableStream(<<>>), [error |-> "slow down"])}

ChatOkResponses ==
    {HttpResponse(200, "OK", ReadableStream(<<"data: Hel", "data: lo">>),
                  [id |-> "chatcmpl-1"])}

\* Bodies of a successful completion: choices absent, empty, a first choice without
\* message, without content, with empty content, with content.
AskAiData ==
    {[id |-> "chatcmpl-1"],
     [id |-> "chatcmpl-1", choices |-> <<>>],
     [id |-> "chatcmpl-1", choices |-> <<[index |-> 0]>>],
     [id |-> "chatcmpl-1", choices |-> <<[index |-> 0, message |-> [role |-> "assistant"]]>>],
     [id |-> "chatcmpl-1",
      choices |-> <<[index |-> 0, message |-> [role |-> "assistant", content |-> ""]]>>],
     [id |-> "chatcmpl-1",
      choices |-> <<[index |-> 0,
                     message |-> [role |-> "assistant",
                                  content |-> "This is a test response"]]>>]}

AskAiOkResponses == {HttpResponse(200, "OK", ReadableStream(<<>>), d) : d \in AskAiData}

\* What the upstream may answer to the request of `op`.
UpstreamResponses(op) ==
    ErrorResponses \cup (IF op = "chat" THEN ChatOkResponses ELSE AskAiOkResponses)

ApiKeys(provider) == {"", "sk-" \o provider \o "-test"}

Configs ==
    {[aiAssistant |-> [selfHostedEnabled |-> e, openRouterApiKey |-> r, openAiApiKey |-> a,
                       openRouterModel |-> DefaultOpenRouterModel,
                       openAiModel |-> DefaultOpenAiModel]] :
        e \in BOOLEAN, r \in ApiKeys("or"), a \in ApiKeys("openai")}

(***************************************************************************)
(* The service from construction                                           *)
(***************************************************************************)
Init ==
    /\ license \in BOOLEAN
    /\ globalConfig \in Configs
    /\ client = Undefined
    /\ selfHostedClient = Undefined
    /\ isUsingLicensedClient = FALSE
    /\ calls = [c \in Calls |-> IdleCall]
    /\ initRuns = 0
    /\ constructed = <<>>

Next ==
    \E c \in Calls :
        \/ \E u \in Users : Chat(c, HelloChat, u)
        \/ \E u \in Users : ApplySuggestion(c, Suggestion456, u)
        \/ \E u \in Users : AskAi(c, HttpNodeQuestion, u)
        \/ \E u \in Users : CreateFreeAiCredits(c, u)
        \/ LoadCertStrResolved(c)
        \/ InitReturned(c)
        \/ LicensedClientReturned(c)
        \/ \E r \in UpstreamResponses(calls[c].op) : FetchResolved(c, r)

Spec == Init /\ [][Next]_vars

(***************************************************************************)
(* The service once init() has selected a self-hosted client: the two      *)
(* adapters under every payload and every upstream response.               *)
(***************************************************************************)
SelfHostedConfigs ==
    {cfg \in Configs : SelfHostedConfigured(cfg.aiAssistant)}

InitSelfHosted ==
    /\ license = FALSE
    /\ globalConfig \in SelfHostedConfigs
    /\ client = Undefined
    /\ selfHostedClient = NewSelfHostedClient(globalConfig.aiAssistant)
    /\ isUsingLicensedClient = FALSE
    /\ calls = [c \in Calls |-> IdleCall]
    /\ initRuns = 1
    /\ constructed = <<selfHostedClient>>

NextSelfHosted ==
    \E c \in Calls :
        \/ \E p \in ChatPayloads, u \in Users : Chat(c, p, u)
        \/ \E p \in ApplySuggestionPayloads, u \in Users : ApplySuggestion(c, p, u)
        \/ \E p \in AskAiPayloads, u \in Users : AskAi(c, p, u)
        \/ \E u \in Users : CreateFreeAiCredits(c, u)
        \/ \E r \in UpstreamResponses(calls[c].op) : FetchResolved(c, r)

SpecSelfHosted == InitSelfHosted /\ [][NextSelfHosted]_vars

(***************************************************************************)
(* chat and askAi on a self-hosted client under every shape of payload.    *)
(***************************************************************************)
ShapedChatPayloads ==
    ChatPayloads \cup
    {[payload |-> pp, sessionId |-> "session123"] :
        pp \in {JsObject(<< <<"question", "What is a webhook?">> >>),
                JsObject(<< <<"message", "Hello">>, <<"question", "What is a webhook?">> >>),
                JsObject(<< <<"message", "">>, <<"question", "What is a webhook?">> >>),
                JsObject(<< <<"message", "">>, <<"question", "">> >>),
                JsObject(<< <<"text", "say \"hi\"">> >>),
                JsObject(<< >>),
                JsString("Hello")}}

CodeNodeSchema ==
    JsObject(<< <<"type", "string">>, <<"path", "/nodes/Code">>, <<"value", "code-schema">> >>)

ShapedAskAiPayloads ==
    AskAiPayloads \cup
    {[question |-> "Test question", context |-> ctx, forNode |-> "Test Node"] :
        ctx \in {[schema     |-> <<[nodeName |-> "Code", schema |-> CodeNodeSchema],
                                   [nodeName |-> "HTTP Request", schema |-> HttpRequestSchema]>>,
                  pushRef    |-> "push123",
                  ndvPushRef |-> "ndv123"],
                 [schema      |-> <<>>,
                  inputSchema |-> [nodeName |-> "Test", schema |-> CodeNodeSchema],
                  pushRef     |-> "push123",
                  ndvPushRef  |-> "ndv123"],
                 [inputSchema |-> [nodeName |-> "Test", schema |-> CodeNodeSchema],
                  pushRef     |-> "push123",
                  ndvPushRef  |-> "ndv123"],
                 [pushRef |-> "push123", ndvPushRef |-> "ndv123"]}}

TestUser == [id |-> "user123"]

\* The requests as they leave; what comes back plays no part in them.
NextShaped ==
    \E c \in Calls :
        \/ \E p \in ShapedChatPayloads : Chat(c, p, TestUser)
        \/ \E p \in ShapedAskAiPayloads : AskAi(c, p, TestUser)

SpecShaped == InitSelfHosted /\ [][NextShaped]_vars

(***************************************************************************)
(* The four operations of a self-hosted client for one user, with a        *)
(* failure and the successes of the upstream.                              *)
(***************************************************************************)
TextChat == [payload |-> JsObject(<< <<"text", "say \"hi\"">> >>), sessionId |-> "session123"]

\* A 401, and the successes whose first choice has a content, empty or not.
SomeResponses(op) ==
    {r \in UpstreamResponses(op) :
        \/ r.status = 401
        \/ r.ok /\ op = "chat"
        \/ /\ r.ok /\ op = "askAi"
           /\ Has(r.json, "choices")
           /\ Len(r.json.choices) > 0
           /\ Has(r.json.choices[1], "message")
           /\ Has(r.json.choices[1].message, "content")}

NextAdapters ==
    \E c \in Calls :
        \/ \E p \in ChatPayloads \cup {TextChat} : Chat(c, p, TestUser)
        \/ ApplySuggestion(c, Suggestion456, TestUser)
        \/ \E p \in AskAiPayloads : AskAi(c, p, TestUser)
        \/ CreateFreeAiCredits(c, TestUser)
        \/ \E r \in SomeResponses(calls[c].op) : FetchResolved(c, r)

SpecAdapters == InitSelfHosted /\ [][NextAdapters]_vars

(***************************************************************************)
(* The service while the license and the configuration change, with init() *)
(* also called from outside.                                               *)
(***************************************************************************)
\* init() called directly.  Without a license it runs to its end at once; under a
\* license it suspends at `await loadCertStr()`.  Neither branch clears the field
\* of the other mode.
InitCalled(c) ==
    /\ CanInvoke(c)
    /\ initRuns' = initRuns + 1
    /\ UNCHANGED <<license, globalConfig, client>>
    /\ IF license
       THEN /\ calls' = [calls EXCEPT ![c] = [IdleCall EXCEPT !.op = "init",
                                                              !.pc = "initLoadCertStr"]]
            /\ UNCHANGED <<selfHostedClient, isUsingLicensedClient, constructed>>
       ELSE /\ calls' = [calls EXCEPT ![c] = [IdleCall EXCEPT !.op = "init",
                                                              !.pc = "done",
                                                              !.result = Return(Undefined)]]
            /\ IF SelfHostedConfigured(globalConfig.aiAssistant)
               THEN /\ selfHostedClient' = NewSelfHostedClient(globalConfig.aiAssistant)
                    /\ constructed' = Append(constructed, selfHostedClient')
                    /\ isUsingLicensedClient' = FALSE
               ELSE UNCHANGED <<selfHostedClient, isUsingLicensedClient, constructed>>

\* The directly called init() resumes after `await loadCertStr()`.
InitLoadCertStrResolved(c) ==
    /\ calls[c].pc = "initLoadCertStr"
    /\ client' = AiAssistantClient(Len(constructed) + 1)
    /\ constructed' = Append(constructed, client')
    /\ isUsingLicensedClient' = TRUE
    /\ calls' = [calls EXCEPT ![c].pc = "done", ![c].result = Return(Undefined)]
    /\ UNCHANGED <<license, globalConfig, selfHostedClient, initRuns>>

\* licenseService.isAiAssistantEnabled() starts to answer the opposite.
LicenseChanged ==
    /\ license' = ~license
    /\ UNCHANGED <<globalConfig, client, selfHostedClient, isUsingLicensedClient,
                   calls, initRuns, constructed>>

\* The self-hosted settings of globalConfig.aiAssistant are replaced.
ConfigChanged(config) ==
    /\ config # globalConfig
    /\ globalConfig' = config
    /\ UNCHANGED <<license, client, selfHostedClient, isUsingLicensedClient,
                   calls, initRuns, constructed>>

NextReinit ==
    \/ \E c \in Calls :
           \/ InitCalled(c)
           \/ InitLoadCertStrResolved(c)
           \/ Chat(c, HelloChat, TestUser)
           \/ LoadCertStrResolved(c)
           \/ InitReturned(c)
           \/ LicensedClientReturned(c)
           \/ \E r \in SomeResponses("chat") : FetchResolved(c, r)
    \/ LicenseChanged
    \/ \E config \in Configs : ConfigChanged(config)

SpecReinit == Init /\ [][NextReinit]_vars

(***************************************************************************)
(* Vocabulary of the properties                                            *)
(***************************************************************************)
\* The class of the client a call was handed to; "none" before that, and for a
\* call that failed its assertion.
ServedClass(call) == IF Has(call.servedBy, "class") THEN call.servedBy.class ELSE "none"

SelfHostedClasses == {"OpenRouterClient", "OpenAIClient"}

\* The call has passed the branch on isUsingLicensedClient.
Dispatched(call) == call.pc \in {"licensed", "fetch", "done"}

Finished(call) == call.pc = "done"

Failed(call) == call.pc = "done" /\ call.result.kind = "throw"

Succeeded(call) == call.pc = "done" /\ call.result.kind = "return"

ProviderName(class) == IF class = "OpenRouterClient" THEN "OpenRouter" ELSE "OpenAI"

ProviderUrl(class) ==
    IF class = "OpenRouterClient" THEN "https://openrouter.ai/api/v1"
    ELSE "https://api.openai.com/v1"

ConfiguredKey(class) ==
    IF class = "OpenRouterClient" THEN globalConfig.aiAssistant.openRouterApiKey
    ELSE globalConfig.aiAssistant.openAiApiKey

ConstructedClasses == {constructed[i].class : i \in 1..Len(constructed)}

(***************************************************************************)
(* C1  Provider priority                                                   *)
(***************************************************************************)
\* The client class the priority order names, with the self-hosted providers
\* available only under selfHostedEnabled.
PriorityClass ==
    IF license THEN "AiAssistantClient"
    ELSE IF ~globalConfig.aiAssistant.selfHostedEnabled THEN "none"
    ELSE IF globalConfig.aiAssistant.openRouterApiKey # "" THEN "OpenRouterClient"
    ELSE IF globalConfig.aiAssistant.openAiApiKey # "" THEN "OpenAIClient"
    ELSE "none"

\* The priority order as the claim words it: the keys alone decide.
PriorityClassByKeysAlone ==
    IF license THEN "AiAssistantClient"
    ELSE IF globalConfig.aiAssistant.openRouterApiKey # "" THEN "OpenRouterClient"
    ELSE IF globalConfig.aiAssistant.openAiApiKey # "" THEN "OpenAIClient"
    ELSE "none"

\* C1 as amended: every operation that reaches a client is served by the licensed
\* client under a license; otherwise, when selfHostedEnabled is set, by the
\* OpenRouter client if its key is configured, else by the OpenAI client if its key
\* is configured; otherwise by no client.  No client of another class is ever
\* constructed (no OpenAI client when both keys are set, no self-hosted client
\* under a license).
C1_ProviderPriority ==
    /\ \A c \in Calls : Dispatched(calls[c]) => ServedClass(calls[c]) = PriorityClass
    /\ ConstructedClasses \subseteq {PriorityClass}

\* C1 as claimed: for every combination of license, flag and keys the keys alone
\* decide which self-hosted client serves an operation.
C1_ProviderPriorityByKeysAlone ==
    /\ \A c \in Calls :
          Dispatched(calls[c]) => ServedClass(calls[c]) = PriorityClassByKeysAlone
    /\ ConstructedClasses \subseteq {PriorityClassByKeysAlone}

\* Both keys configured, no license: an operation was served by the OpenRouter client.
C1_Witness ==
    /\ ~license
    /\ globalConfig.aiAssistant.openRouterApiKey # ""
    /\ globalConfig.aiAssistant.openAiApiKey # ""
    /\ \E c \in Calls : Succeeded(calls[c]) /\ ServedClass(calls[c]) = "OpenRouterClient"

(***************************************************************************)
(* C2  A non-success upstream response always ends in the provider's error *)
(***************************************************************************)
ApiErrorMessage(class, response) ==
    ProviderName(class) \o " API error: " \o ToString(response.status)
        \o " " \o response.statusText

GotResponse(call) == Has(call.response, "ok")

\* C2: a chat or askAi call of either client whose upstream response was not ok has
\* failed with '<Provider> API error: <status> <statusText>' and returned nothing.
C2_NonSuccessFails ==
    \A c \in Calls :
        (GotResponse(calls[c]) /\ ~calls[c].response.ok) =>
            /\ calls[c].op \in {"chat", "askAi"}
            /\ calls[c].result =
                   Throw("Error", ApiErrorMessage(ServedClass(calls[c]), calls[c].response))

\* The OpenAI client's askAi got 429 Too Many Requests and failed.
C2_Witness ==
    \E c \in Calls :
        /\ calls[c].op = "askAi"
        /\ ServedClass(calls[c]) = "OpenAIClient"
        /\ GotResponse(calls[c]) /\ calls[c].response.status = 429
        /\ Failed(calls[c])

(***************************************************************************)
(* C3  Missing answer content defaults to the placeholder                  *)
(***************************************************************************)
\* The completion carries a non-empty content in its first choice.
HasContent(data) == Has(data, "choices") /\ HasChoiceContent(data)

\* C3: an askAi call whose upstream response was a success has returned the first
\* choice's content when there is one, and otherwise (choices absent or empty, no
\* message, no content) the placeholder 'No response generated'; it has not failed.
C3_MissingContentPlaceholder ==
    \A c \in Calls :
        (calls[c].op = "askAi" /\ GotResponse(calls[c]) /\ calls[c].response.ok) =>
            calls[c].result =
                Return([answer |->
                           IF HasContent(calls[c].response.json)
                           THEN calls[c].response.json.choices[1].message.content
                           ELSE NoResponseGenerated])

(***************************************************************************)
(* C4  Request determinism                                                 *)
(***************************************************************************)
\* C4: two calls of the same operation on the same client with equal payloads have
\* sent the same requests (URL, method, headers, body), whatever their users, their
\* order, and the outcome of the other calls.
C4_RequestDeterminism ==
    \A c1, c2 \in Calls :
        ( /\ calls[c1].op \in {"chat", "askAi"}
          /\ calls[c1].op = calls[c2].op
          /\ Dispatched(calls[c1]) /\ Dispatched(calls[c2])
          /\ calls[c1].servedBy = calls[c2].servedBy
          /\ calls[c1].payload = calls[c2].payload ) =>
            calls[c1].requests = calls[c2].requests

\* A chat that failed was followed by a chat with the same payload for another user.
C4_Witness ==
    \E c1, c2 \in Calls :
        /\ c1 < c2
        /\ calls[c1].op = "chat" /\ calls[c2].op = "chat"
        /\ calls[c1].payload = calls[c2].payload
        /\ calls[c1].user # calls[c2].user
        /\ Failed(calls[c1])
        /\ Len(calls[c2].requests) = 1
        /\ calls[c1].requests = calls[c2].requests

(***************************************************************************)
(* C5  No retry                                                            *)
(***************************************************************************)
\* C5: a chat or askAi call handed to a self-hosted client has issued exactly one
\* upstream request, to that client's provider, while it waits and after it has
\* succeeded or failed.
C5_ExactlyOneRequest ==
    \A c \in Calls :
        ( /\ calls[c].op \in {"chat", "askAi"}
          /\ ServedClass(calls[c]) \in SelfHostedClasses ) =>
            /\ Len(calls[c].requests) = 1
            /\ calls[c].requests[1].url =
                   ProviderUrl(ServedClass(calls[c])) \o "/chat/completions"

\* An askAi call got a non-success response and has failed.
C5_Witness ==
    \E c \in Calls :
        /\ calls[c].op = "askAi"
        /\ GotResponse(calls[c]) /\ ~calls[c].response.ok
        /\ Failed(calls[c])
        /\ Len(calls[c].requests) = 1

(***************************************************************************)
(* C6  API keys are not exposed                                            *)
(***************************************************************************)
\* Every string an outcome hands to the caller.
OutcomeStrings(result) ==
    IF result.kind = "throw" THEN {result.message}
    ELSE (IF Has(result.value, "answer") THEN {result.value.answer} ELSE {})
         \cup (IF Has(result.value, "body")
               THEN {result.value.body.chunks[i] : i \in 1..Len(result.value.body.chunks)}
               ELSE {})
         \cup (IF Has(result.value, "sessionId")
               THEN {result.value.sessionId, result.value.suggestionId} ELSE {})
         \cup (IF Has(result.value, "apiKey")
               THEN {result.value.apiKey, result.value.url} ELSE {})

ConfiguredKeys ==
    {globalConfig.aiAssistant.openRouterApiKey, globalConfig.aiAssistant.openAiApiKey}
        \ {""}

\* C6: no outcome of an AiService operation, result or failure message, contains a
\* configured API key.
C6_ApiKeysNeverExposed ==
    \A c \in Calls :
        Finished(calls[c]) =>
            \A s \in OutcomeStrings(calls[c].result), k \in ConfiguredKeys : ~Contains(s, k)

(***************************************************************************)
(* C7  Provider selection happens once                                     *)
(***************************************************************************)
\* C7: over any interleaving of operations init() has run at most once and at most
\* one client object was ever selected.
C7_InitAtMostOnce ==
    /\ initRuns <= 1
    /\ Len(constructed) <= 1

(***************************************************************************)
(* C8  Self-hosted mode needs the flag and a key                           *)
(***************************************************************************)
NotConfigured ==
    /\ ~license
    /\ \/ ~globalConfig.aiAssistant.selfHostedEnabled
       \/ /\ globalConfig.aiAssistant.openRouterApiKey = ""
          /\ globalConfig.aiAssistant.openAiApiKey = ""

\* C8: without a license, and with the flag off or no key, no self-hosted client is
\* ever created, no request is sent, and every operation that has come back from
\* init() has failed with 'Self-hosted assistant client not setup'.
C8_NotConfiguredFails ==
    NotConfigured =>
        /\ selfHostedClient = Undefined
        /\ constructed = <<>>
        /\ \A c \in Calls :
              /\ calls[c].pc \in {"idle", "init", "done"}
              /\ calls[c].requests = <<>>
              /\ Finished(calls[c]) =>
                    calls[c].result = Throw("AssertionError",
                                            "Self-hosted assistant client not setup")

\* A key is configured, the flag is off, and an operation has failed.
C8_Witness ==
    /\ ~license
    /\ ~globalConfig.aiAssistant.selfHostedEnabled
    /\ globalConfig.aiAssistant.openRouterApiKey # ""
    /\ \E c \in Calls : Failed(calls[c])

(***************************************************************************)
(* C9  applySuggestion echoes its payload                                  *)
(***************************************************************************)
\* C9: an applySuggestion call on a self-hosted client completes at once, with the
\* payload's sessionId and suggestionId and applied = true, and sends no request,
\* whatever was called before it.
C9_ApplySuggestionEchoes ==
    \A c \in Calls :
        calls[c].op = "applySuggestion" =>
            /\ calls[c].result =
                   Return([sessionId    |-> calls[c].payload.sessionId,
                           suggestionId |-> calls[c].payload.suggestionId,
                           applied      |-> TRUE])
            /\ calls[c].requests = <<>>
            /\ Finished(calls[c])

\* The first call of the run applied a suggestion, and the OpenAI client has
\* applied the other one.
C9_Witness ==
    /\ calls[1].op = "applySuggestion" /\ Succeeded(calls[1])
    /\ \E c \in Calls :
          /\ calls[c].op = "applySuggestion"
          /\ ServedClass(calls[c]) = "OpenAIClient"
          /\ calls[c].payload.suggestionId = "suggestion1"

(***************************************************************************)
(* C10  generateAiCreditsCredentials returns the client's key and base URL *)
(***************************************************************************)
\* C10: a createFreeAiCredits call served by a self-hosted client returns the key
\* that client was configured with and its provider's base URL, for every user,
\* and sends no request.
C10_CredentialsAreKeyAndUrl ==
    \A c \in Calls :
        calls[c].op = "createFreeAiCredits" =>
            /\ calls[c].result =
                   Return([apiKey |-> ConfiguredKey(ServedClass(calls[c])),
                           url    |-> ProviderUrl(ServedClass(calls[c]))])
            /\ calls[c].requests = <<>>
            /\ Finished(calls[c])

\* The OpenAI client has handed out credentials to the second user.
C10_Witness ==
    \E c \in Calls :
        /\ calls[c].op = "createFreeAiCredits"
        /\ ServedClass(calls[c]) = "OpenAIClient"
        /\ calls[c].user.id = "user456"
        /\ Succeeded(calls[c])

(***************************************************************************)
(* C11  Each client talks to its own provider with its own key and model   *)
(***************************************************************************)
ConfiguredModel(class) ==
    IF class = "OpenRouterClient" THEN globalConfig.aiAssistant.openRouterModel
    ELSE globalConfig.aiAssistant.openAiModel

StartsWith(s, prefix) ==
    Len(s) >= Len(prefix) /\ SubSeq(s, 1, Len(prefix)) = prefix

EndsWith(s, suffix) ==
    Len(s) >= Len(suffix) /\ SubSeq(s, Len(s) - Len(suffix) + 1, Len(s)) = suffix

HeaderNames(class) ==
    IF class = "OpenRouterClient"
    THEN {"Content-Type", "Authorization", "HTTP-Referer", "X-Title"}
    ELSE {"Content-Type", "Authorization"}

\* Every string of a request that leaves the process.
RequestStrings(request) ==
    {request.url, request.body} \cup {request.headers[h] : h \in DOMAIN request.headers}

\* C11: every request of a self-hosted client is a POST to its own provider's
\* /chat/completions, authorised with 'Bearer <its own key>' and naming its own
\* configured model; the other provider's key occurs nowhere in it.  OpenRouter
\* requests carry exactly Content-Type, Authorization, HTTP-Referer and X-Title,
\* OpenAI requests exactly Content-Type and Authorization.
C11_OwnEndpointKeyAndModel ==
    \A c \in Calls : \A i \in 1..Len(calls[c].requests) :
        LET class   == ServedClass(calls[c])
            request == calls[c].requests[i]
        IN  /\ request.url = ProviderUrl(class) \o "/chat/completions"
            /\ request.method = "POST"
            /\ DOMAIN request.headers = HeaderNames(class)
            /\ request.headers["Content-Type"] = "application/json"
            /\ request.headers["Authorization"] = "Bearer " \o ConfiguredKey(class)
            /\ class = "OpenRouterClient" =>
                  /\ request.headers["HTTP-Referer"] = "https://n8n.io"
                  /\ request.headers["X-Title"] = "n8n AI Assistant"
            /\ StartsWith(request.body,
                          "{" \o JsonString("model") \o ":"
                              \o JsonString(ConfiguredModel(class)) \o ",")
            /\ \A k \in ConfiguredKeys \ {ConfiguredKey(class)} :
                  \A s \in RequestStrings(request) : ~Contains(s, k)

\* Both keys are configured and the OpenRouter client has sent an askAi request.
C11_Witness ==
    /\ Cardinality(ConfiguredKeys) = 2
    /\ \E c \in Calls :
          /\ calls[c].op = "askAi"
          /\ ServedClass(calls[c]) = "OpenRouterClient"
          /\ Len(calls[c].requests) = 1

(***************************************************************************)
(* C12  chat hands the upstream body through                               *)
(***************************************************************************)
\* C12: a chat call whose upstream response was a success has returned exactly
\* { body: response.body }, the stream as the upstream delivered it (no chunk
\* taken, not locked), and its request was sent with stream = true.
C12_ChatPassThrough ==
    \A c \in Calls :
        (calls[c].op = "chat" /\ GotResponse(calls[c]) /\ calls[c].response.ok) =>
            /\ calls[c].result = Return([body |-> calls[c].response.body])
            /\ calls[c].response.body \in {r.body : r \in ChatOkResponses}
            /\ EndsWith(calls[c].requests[1].body,
                        JsonString("stream") \o ":" \o JsonBoolean(TRUE) \o "}")

\* The OpenAI client's chat has returned a stream of two chunks.
C12_Witness ==
    \E c \in Calls :
        /\ calls[c].op = "chat"
        /\ ServedClass(calls[c]) = "OpenAIClient"
        /\ Succeeded(calls[c])
        /\ Len(calls[c].result.value.body.chunks) = 2

(***************************************************************************)
(* C13  The two adapters agree up to the provider constants                *)
(***************************************************************************)
\* The other adapter, constructed with the same key and model.
Twin(self) ==
    IF self.class = "OpenRouterClient" THEN OpenAIClient(self.apiKey, self.model)
    ELSE OpenRouterClient(self.apiKey, self.model)

OpenRouterOnlyHeaders == {"HTTP-Referer", "X-Title"}

\* A failure message without the provider name it starts with.
AfterProviderName(message, class) ==
    SubSeq(message, Len(ProviderName(class)) + 1, Len(message))

\* Two requests equal except for the endpoint and the OpenRouter headers.
SameRequestUpToProvider(own, twin) ==
    /\ own.body = twin.body
    /\ own.method = twin.method
    /\ own.url # twin.url
    /\ (DOMAIN own.headers \ DOMAIN twin.headers)
           \cup (DOMAIN twin.headers \ DOMAIN own.headers) = OpenRouterOnlyHeaders
    /\ \A h \in DOMAIN own.headers \cap DOMAIN twin.headers : own.headers[h] = twin.headers[h]

\* Two results of chat or askAi equal except for the provider name in a failure.
SameResultUpToProvider(own, ownClass, twin, twinClass, response) ==
    IF response.ok
    THEN own = twin
    ELSE /\ own.kind = "throw" /\ twin.kind = "throw"
         /\ own.name = twin.name
         /\ StartsWith(own.message, ProviderName(ownClass))
         /\ StartsWith(twin.message, ProviderName(twinClass))
         /\ AfterProviderName(own.message, ownClass)
                = AfterProviderName(twin.message, twinClass)

\* C13: whatever a self-hosted client sent and returned, the other adapter, given
\* the same key, model, payload, user and upstream response, sends the same body
\* with the same method and shared headers and returns the same result; the two
\* differ in the endpoint, the two OpenRouter headers, the provider name of a
\* failure message and the url of the credentials.
C13_AdaptersEquivalent ==
    \A c \in Calls :
        LET call == calls[c]
            self == call.servedBy
            twin == Twin(self)
        IN  ServedClass(call) \in SelfHostedClasses =>
                /\ (call.op \in {"chat", "askAi"} /\ Len(call.requests) > 0) =>
                       \A request \in {AiSelfHostedClient_fetch(twin, call.op,
                                                                call.payload, call.user)} :
                           SameRequestUpToProvider(call.requests[1], request)
                /\ (call.op \in {"chat", "askAi"} /\ GotResponse(call)) =>
                       \A result \in {AiSelfHostedClient_then(twin, call.op, call.response)} :
                           SameResultUpToProvider(call.result, self.class,
                                                  result, twin.class, call.response)
                /\ (call.op = "applySuggestion" /\ Finished(call)) =>
                       call.result = AiSelfHostedClient_sync(twin, call.op,
                                                             call.payload, call.user)
                /\ (call.op = "createFreeAiCredits" /\ Finished(call)) =>
                       LET other == AiSelfHostedClient_sync(twin, call.op,
                                                            call.payload, call.user)
                       IN  /\ other.kind = call.result.kind
                           /\ other.value.apiKey = call.result.value.apiKey
                           /\ other.value.url # call.result.value.url

\* The OpenAI client has answered askAi from an upstream body whose content is
\* empty, and an upstream failure has been turned into an error.
C13_Witness ==
    \E c1, c2 \in Calls :
        /\ ServedClass(calls[c1]) = "OpenAIClient" /\ ServedClass(calls[c2]) = "OpenAIClient"
        /\ calls[c1].op = "askAi" /\ Succeeded(calls[c1])
        /\ calls[c1].result.value.answer = NoResponseGenerated
        /\ HasChoiceContent(calls[c1].response.json) = FALSE
        /\ Failed(calls[c2]) /\ GotResponse(calls[c2]) /\ ~calls[c2].response.ok

(***************************************************************************)
(* C14  The message list of chat                                           *)
(***************************************************************************)
SystemMessage == [role |-> "system", content |-> SystemContent]

IsObjectPayload(payload) == Has(payload, "payload") /\ payload.payload.type = "object"

\* The user message the claim names for an object payload.
ClaimedUserContent(object) ==
    LET given(key) == \E i \in 1..Len(object.props) :
                          object.props[i][1] = key /\ object.props[i][2] # ""
        value(key) == object.props[CHOOSE i \in 1..Len(object.props) :
                                       object.props[i][1] = key][2]
    IN  IF given("message") THEN value("message")
        ELSE IF given("question") THEN value("question")
        ELSE JsonObject(object)

ClaimedChatMessages(payload) ==
    IF IsObjectPayload(payload)
    THEN <<SystemMessage, [role |-> "user", content |-> ClaimedUserContent(payload.payload)]>>
    ELSE <<SystemMessage>>

\* C14: the message list of every chat request is the one system message, followed,
\* when payload.payload is an object, by one user message holding message if
\* non-empty, else question if non-empty, else the JSON text of payload.payload;
\* it never has more than two messages.
C14_ChatMessages ==
    \A c \in Calls : \A i \in 1..Len(calls[c].requests) :
        calls[c].op = "chat" =>
            /\ calls[c].requests[i].body =
                   JsonRequestBody([model    |-> calls[c].servedBy.model,
                                    messages |-> ClaimedChatMessages(calls[c].payload),
                                    stream   |-> TRUE])
            /\ Len(ClaimedChatMessages(calls[c].payload)) <= 2

\* Chat requests have gone out for a payload with message and question, and for a
\* payload with neither.
C14_Witness ==
    \E c1, c2 \in Calls :
        /\ calls[c1].op = "chat" /\ calls[c2].op = "chat"
        /\ Len(calls[c1].requests) = 1 /\ Len(calls[c2].requests) = 1
        /\ IsObjectPayload(calls[c1].payload) /\ IsObjectPayload(calls[c2].payload)
        /\ Prop(calls[c1].payload.payload, "message") # ""
        /\ Prop(calls[c1].payload.payload, "question") # ""
        /\ Prop(calls[c2].payload.payload, "message") = ""
        /\ Prop(calls[c2].payload.payload, "question") = ""

(***************************************************************************)
(* C15  The request of askAi                                               *)
(***************************************************************************)
RECURSIVE Concat(_)
Concat(parts) == IF Len(parts) = 0 THEN "" ELSE Head(parts) \o Concat(Tail(parts))

HasContext(payload) == Has(payload, "context")

HasSchema(payload) == HasContext(payload) /\ Has(payload.context, "schema")

HasInputSchema(payload) == HasContext(payload) /\ Has(payload.context, "inputSchema")

\* The parts of the prompt in the order the claim gives them.
ClaimedPromptParts(payload) ==
    LET schema == IF HasSchema(payload) THEN payload.context.schema ELSE <<>>
    IN  <<"Question: " \o payload.question \o NEWLINE \o NEWLINE>>
        \o (IF HasContext(payload) THEN <<"Context:" \o NEWLINE>> ELSE <<>>)
        \o (IF HasSchema(payload)
            THEN <<"Available nodes and their schemas:" \o NEWLINE>> ELSE <<>>)
        \o [i \in 1..Len(schema) |->
               "- " \o schema[i].nodeName \o ": " \o JsonObject(schema[i].schema) \o NEWLINE]
        \o (IF HasInputSchema(payload)
            THEN <<"Input schema for " \o payload.context.inputSchema.nodeName \o ": "
                   \o JsonObject(payload.context.inputSchema.schema) \o NEWLINE>>
            ELSE <<>>)
        \o <<NEWLINE \o "For node: " \o payload.forNode \o NEWLINE \o NEWLINE,
             "Please provide a helpful answer for this n8n workflow automation question.">>

\* C15: every askAi request carries stream = false and exactly two messages, the
\* system message and one user message whose content is the question, then one
\* line per entry of context.schema in order, then the input schema line, then the
\* "For node" line and the closing sentence; question and forNode are always in it.
C15_AskAiRequest ==
    \A c \in Calls : \A i \in 1..Len(calls[c].requests) :
        calls[c].op = "askAi" =>
            LET payload == calls[c].payload
                prompt  == Concat(ClaimedPromptParts(payload))
            IN  /\ calls[c].requests[i].body =
                       JsonRequestBody([model    |-> calls[c].servedBy.model,
                                        messages |-> <<SystemMessage,
                                                       [role |-> "user", content |-> prompt]>>,
                                        stream   |-> FALSE])
                /\ Contains(calls[c].requests[i].body,
                            Escape("Question: " \o payload.question))
                /\ Contains(calls[c].requests[i].body,
                            Escape("For node: " \o payload.forNode))

\* askAi requests have gone out for a context listing two nodes and for a payload
\* without context.
C15_Witness ==
    \E c1, c2 \in Calls :
        /\ calls[c1].op = "askAi" /\ calls[c2].op = "askAi"
        /\ Len(calls[c1].requests) = 1 /\ Len(calls[c2].requests) = 1
        /\ HasSchema(calls[c1].payload) /\ Len(calls[c1].payload.context.schema) = 2
        /\ ~HasContext(calls[c2].payload)

(***************************************************************************)
(* C16  One client at a time                                               *)
(***************************************************************************)
\* C16: in every state reached by init calls and operations, with the license and
\* the configuration changing in between, at most one of client and
\* selfHostedClient is set, and isUsingLicensedClient is true exactly when client
\* is set.
C16_AtMostOneClient ==
    /\ ~(client # Undefined /\ selfHostedClient # Undefined)
    /\ isUsingLicensedClient <=> (client # Undefined)

====
